---- MODULE Spec2Model ----
(***************************************************************************)
(* Model of the parallel download engine of scripts/download_pdb.py        *)
(* (PDBDownloader) and scripts/download_sabdab.py (SabdabDownloader).      *)
(*                                                                         *)
(* The two classes share _process_batch, _record_failure,                  *)
(* _retry_failed_downloads and _save_failure_summary line for line; they   *)
(* differ in _download_single_file (only SabdabDownloader skips an         *)
(* identifier whose output file exists) and in download_structures         *)
(* (PDBDownloader runs one _process_batch per batch file, SabdabDownloader *)
(* a single one).  The variable `variant` selects the class.               *)
(*                                                                         *)
(* Time.  The code reads time.time() in _record_failure / DownloadFailure  *)
(* (the timestamp of a failure) and at the top of the retry loop, and only *)
(* ever uses the difference current_time - failure.timestamp, compared     *)
(* with RETRY_WAIT_TIME.  Each ledger record therefore carries `elapsed`,  *)
(* the time since its timestamp, which every passage of time increases and *)
(* which is cut off at RETRY_WAIT_TIME (beyond it the comparison cannot    *)
(* change).  Time passes in time.sleep(60) and while the main thread waits *)
(* in as_completed for the next finished future.                           *)
(***************************************************************************)
EXTENDS Integers, FiniteSets, Sequences, TLC

\* ---------------------------------------------------------------- bounds
NumIds == 2
MaxWorkers == 2

\* ------------------------------------------------------ program constants
DefaultMaxRetryAttempts == 3
DefaultRetryWaitTime == 300
PollInterval == 60

Ids == 1..NumIds
Variants == {"pdb", "sabdab"}

\* What one call of requests.get + the file write can do.
\*   ok          status 200 and the body written
\*   status      a status code other than 200
\*   exception   requests.get raised (timeout, connection, DNS)
\*   write_error status 200, open() created the file, f.write raised
NetworkOutcomes == {"ok", "status", "exception", "write_error"}

\* Time that can pass while the main thread waits for the next future.
WaitDurations == {0, PollInterval}

VARIABLES
    variant,              \* "pdb" | "sabdab": which downloader runs
    MAX_RETRY_ATTEMPTS,   \* self.MAX_RETRY_ATTEMPTS
    RETRY_WAIT_TIME,      \* self.RETRY_WAIT_TIME
    max_workers,          \* self.max_workers
    pdb_ids,              \* identifiers not yet handed to _process_batch
    output_files,         \* identifiers whose output file is on disk
    failed_downloads,     \* self.failed_downloads: id -> DownloadFailure
    pc,                   \* position of the main thread
    in_retry,             \* the running _process_batch was called by the retry loop
    retry_pdb_ids,        \* the retry loop's list of this round
    future,               \* future_to_pdb: the task of each identifier
    pending,              \* futures as_completed has not yielded yet
    completed,            \* futures whose outcome the loop has handled
    failure_file,         \* the file _save_failure_summary writes
    \* history of the run, read by the properties only
    fetches,              \* id -> calls of _download_single_file so far
    succeeded,            \* ids for which some call returned success
    last_outcome,         \* id -> "none" | "ok" | "fail": its latest outcome handled
    pruned,               \* id -> "no" | "exhausted" | "on_disk": how the cleanup removed it
    rounds,               \* retry rounds started so far
    round_fetches,        \* id -> retry rounds it was part of
    processed,            \* id -> times its outcome was handled in this round
    recorded,             \* id -> _record_failure calls for it in this round
    \* the listing step of main() and what it leaves behind
    input_error,          \* fetch_pdb_ids could not obtain the list
    dup_ids,              \* identifiers the list still to be processed holds twice
    dup_future,           \* future_to_pdb: the task of an identifier's second line
    dup_pending           \* second-line futures as_completed has not yielded yet

config == <<variant, MAX_RETRY_ATTEMPTS, RETRY_WAIT_TIME, max_workers>>
pool == <<future, pending, completed, processed, recorded>>
history == <<fetches, succeeded, last_outcome, pruned, rounds, round_fetches>>
listing == <<input_error, dup_ids>>
dup_pool == <<dup_future, dup_pending>>
vars == <<variant, MAX_RETRY_ATTEMPTS, RETRY_WAIT_TIME, max_workers, pdb_ids,
          output_files, failed_downloads, pc, in_retry, retry_pdb_ids, future,
          pending, completed, failure_file, fetches, succeeded, last_outcome,
          pruned, rounds, round_fetches, processed, recorded, input_error,
          dup_ids, dup_future, dup_pending>>

Min(a, b) == IF a < b THEN a ELSE b

\* ------------------------------------------------------------ the ledger

\* Faulty variant: the attempt of a new record starts at 0.
DownloadFailure_FromZero(error_msg) ==
    [attempt |-> 0, error_msg |-> error_msg, elapsed |-> 0]

\* DownloadFailure.__init__: attempt = 1, timestamp = now.
DownloadFailure(error_msg) ==
    [attempt |-> 1, error_msg |-> error_msg, elapsed |-> 0]

\* Faulty variant: a repeated failure starts a new record, attempt = 1 again.
record_failure_Fresh(led, pdb_id, error_msg) ==
    [x \in DOMAIN led \cup {pdb_id} |->
        IF x = pdb_id THEN DownloadFailure(error_msg) ELSE led[x]]

\* Faulty variant: a repeated failure counts the attempt and stamps the time
\* but keeps the message of the first failure.
record_failure_StaleMessage(led, pdb_id, error_msg) ==
    IF pdb_id \in DOMAIN led
    THEN [led EXCEPT ![pdb_id] = [attempt |-> @.attempt + 1,
                                  error_msg |-> @.error_msg,
                                  elapsed |-> 0]]
    ELSE [x \in DOMAIN led \cup {pdb_id} |->
            IF x = pdb_id THEN DownloadFailure(error_msg) ELSE led[x]]

\* _record_failure.
record_failure(led, pdb_id, error_msg) ==
    IF pdb_id \in DOMAIN led
    THEN [led EXCEPT ![pdb_id] = [attempt |-> @.attempt + 1,
                                  error_msg |-> error_msg,
                                  elapsed |-> 0]]
    ELSE [x \in DOMAIN led \cup {pdb_id} |->
            IF x = pdb_id THEN DownloadFailure(error_msg) ELSE led[x]]

\* Faulty variant: a success drops the identifier's record at once.
Handled_ForgetsOnSuccess(led, pdb_id, success, message) ==
    IF success THEN [x \in DOMAIN led \ {pdb_id} |-> led[x]]
               ELSE record_failure(led, pdb_id, message)

\* The as_completed loop, "if not success: self._record_failure(...)": the
\* ledger after the outcome (success, message) of pdb_id is handled.
Handled(led, pdb_id, success, message) ==
    IF success THEN led ELSE record_failure(led, pdb_id, message)

\* The passage of dt seconds, as seen by current_time - failure.timestamp.
Advance(led, dt) ==
    [x \in DOMAIN led |->
        [led[x] EXCEPT !.elapsed = Min(@ + dt, RETRY_WAIT_TIME)]]

\* Faulty variant: "attempt <= MAX_RETRY_ATTEMPTS".
Eligible_Inclusive(led) ==
    {x \in DOMAIN led : /\ led[x].attempt <= MAX_RETRY_ATTEMPTS
                        /\ led[x].elapsed >= RETRY_WAIT_TIME}

\* Faulty variant: the test of current_time - failure.timestamp is missing.
Eligible_NoCooldown(led) ==
    {x \in DOMAIN led : led[x].attempt < MAX_RETRY_ATTEMPTS}

\* The list comprehension at the top of the retry loop.
Eligible(led) ==
    {x \in DOMAIN led : /\ led[x].attempt < MAX_RETRY_ATTEMPTS
                        /\ led[x].elapsed >= RETRY_WAIT_TIME}

\* Faulty variant: "attempt > MAX_RETRY_ATTEMPTS".
Exhausted_Strict(led, retried) ==
    {x \in DOMAIN led \cap retried : led[x].attempt > MAX_RETRY_ATTEMPTS}

\* The cleanup loop after a retry round: which entries it deletes.
Exhausted(led, retried) ==
    {x \in DOMAIN led \cap retried : led[x].attempt >= MAX_RETRY_ATTEMPTS}

\* Faulty variant: the elif os.path.exists(...) branch is missing.
OnDisk_Never(led, retried, files) == {}

OnDisk(led, retried, files) ==
    {x \in (DOMAIN led \cap retried) \ Exhausted(led, retried) : x \in files}

\* Faulty variant: "if pdb_id not in retry_pdb_ids: continue" is missing, so
\* the cleanup looks at every entry of the ledger.
Cleanup_EveryEntry(led, retried, files) ==
    [x \in DOMAIN led \ (Exhausted(led, DOMAIN led)
                            \cup OnDisk(led, DOMAIN led, files))
        |-> led[x]]

\* The ledger the cleanup loop leaves.
Cleanup(led, retried, files) ==
    [x \in DOMAIN led \ (Exhausted(led, retried) \cup OnDisk(led, retried, files))
        |-> led[x]]

\* ------------------------------------------------------- the worker pool

NoFuture == [state |-> "none", success |-> FALSE, msg |-> "",
             existed |-> FALSE, requested |-> FALSE]
Queued == [NoFuture EXCEPT !.state = "queued"]

Running == {x \in Ids : future[x].state = "running"}

\* Busy worker threads that run the task of a second line.
DupRunning == {x \in Ids : dup_future[x].state = "running"}

\* Faulty variant: one thread per submitted work item.
WorkerFree_Unbounded == TRUE

\* ThreadPoolExecutor(max_workers): a queued work item starts only while
\* fewer than max_workers worker threads are busy.
WorkerFree == Cardinality(Running) + Cardinality(DupRunning) < max_workers

\* Faulty variant: the "Skip if file already exists" check is missing.
AlreadyDownloaded_Never(pdb_id) == FALSE

\* _download_single_file, first lines: SabdabDownloader returns at once when
\* the output file exists; PDBDownloader has no such check.
AlreadyDownloaded(pdb_id) == variant = "sabdab" /\ pdb_id \in output_files

\* _download_single_file: the result of the call for one network outcome.
Success(outcome) == outcome = "ok"

Message(outcome) ==
    CASE outcome = "ok" -> "downloaded"
      [] outcome = "status" -> "status"
      [] OTHER -> "exception"

\* Faulty variant: the body of a 200 response is never written.
FilesAfter_NoWrite(files, pdb_id, outcome) == files

\* The file _download_single_file leaves behind: open(..., "w") creates it
\* as soon as the status is 200.
FilesAfter(files, pdb_id, outcome) ==
    IF outcome \in {"ok", "write_error"} THEN files \cup {pdb_id} ELSE files

\* executor.submit for every element of the batch: one future per element,
\* so two for an identifier the batch holds twice.
Submit(batch) ==
    /\ future' = [x \in Ids |-> IF x \in batch THEN Queued ELSE NoFuture]
    /\ pending' = batch
    /\ dup_future' = [x \in Ids |-> IF x \in batch \cap dup_ids THEN Queued
                                                               ELSE NoFuture]
    /\ dup_pending' = batch \cap dup_ids
    /\ completed' = 0
    /\ processed' = [x \in Ids |-> 0]
    /\ recorded' = [x \in Ids |-> 0]
    /\ pc' = "process_batch"

\* Faulty variant: the loop stops waiting once the first future is done.
Yielded_OnlyFirst(waiting, pdb_id) == {}

\* Faulty variant: a yielded future stays among those waited for.
Yielded_Again(waiting, pdb_id) == waiting

\* as_completed hands each finished future to the loop once.
Yielded(waiting, pdb_id) == waiting \ {pdb_id}

\* The "with ThreadPoolExecutor" block is left: the futures of the round and
\* the loop's counters go out of scope.
PoolClosed ==
    /\ future' = [x \in Ids |-> NoFuture]
    /\ pending' = {}
    /\ completed' = 0
    /\ processed' = [x \in Ids |-> 0]
    /\ recorded' = [x \in Ids |-> 0]
    /\ dup_future' = [x \in Ids |-> NoFuture]
    /\ dup_pending' = {}

\* ---------------------------------------------------------------- Init

\* A downloader object right after __init__, before any list is read: the
\* ledger is empty, the output directory holds whatever earlier runs left.
Constructed ==
    /\ variant \in Variants
    /\ max_workers \in 1..MaxWorkers
    /\ output_files \in SUBSET Ids
    /\ failed_downloads = <<>>
    /\ in_retry = FALSE
    /\ retry_pdb_ids = {}
    /\ future = [x \in Ids |-> NoFuture]
    /\ pending = {}
    /\ completed = 0
    /\ failure_file = [written |-> FALSE, rows |-> {}]
    /\ fetches = [x \in Ids |-> 0]
    /\ succeeded = {}
    /\ last_outcome = [x \in Ids |-> "none"]
    /\ pruned = [x \in Ids |-> "no"]
    /\ rounds = 0
    /\ round_fetches = [x \in Ids |-> 0]
    /\ processed = [x \in Ids |-> 0]
    /\ recorded = [x \in Ids |-> 0]
    /\ input_error = FALSE
    /\ dup_ids = {}
    /\ dup_future = [x \in Ids |-> NoFuture]
    /\ dup_pending = {}

\* download_structures is entered with a list of distinct identifiers.
InitRun ==
    /\ Constructed
    /\ pdb_ids \in SUBSET Ids
    /\ pc = "download_structures"

\* __init__ of both classes.
Init ==
    /\ MAX_RETRY_ATTEMPTS = DefaultMaxRetryAttempts
    /\ RETRY_WAIT_TIME = DefaultRetryWaitTime
    /\ InitRun

\* The same run with the retry cap and the cooldown set by the caller.
TunableInit ==
    /\ MAX_RETRY_ATTEMPTS \in 1..DefaultMaxRetryAttempts
    /\ RETRY_WAIT_TIME \in {0, DefaultRetryWaitTime}
    /\ InitRun

\* ------------------------------------------------------------- actions

\* download_structures: one _process_batch per batch file (pdb), or one for
\* the whole list (sabdab).
StartBatch(batch) ==
    /\ pc = "download_structures"
    /\ IF variant = "pdb" THEN batch # {} /\ batch \subseteq pdb_ids
                          ELSE batch = pdb_ids
    /\ pdb_ids' = pdb_ids \ batch
    /\ dup_ids' = dup_ids \ batch
    /\ in_retry' = FALSE
    /\ Submit(batch)
    /\ UNCHANGED <<config, output_files, failed_downloads, retry_pdb_ids,
                   failure_file, history>>
    /\ UNCHANGED input_error

\* PDBDownloader.download_structures: the loop over the batch files ends.
BatchesDone ==
    /\ pc = "download_structures"
    /\ variant = "pdb"
    /\ pdb_ids = {}
    /\ pc' = "check_failed"
    /\ UNCHANGED <<config, pdb_ids, output_files, failed_downloads, in_retry,
                   retry_pdb_ids, pool, failure_file, history>>
    /\ UNCHANGED <<listing, dup_pool>>

\* A worker thread takes a queued work item and calls _download_single_file.
TaskStart(pdb_id) ==
    /\ future[pdb_id].state = "queued"
    /\ WorkerFree
    /\ future' = [future EXCEPT ![pdb_id].state = "running"]
    /\ fetches' = [fetches EXCEPT ![pdb_id] = @ + 1]
    /\ round_fetches' = [round_fetches EXCEPT ![pdb_id] =
                            IF in_retry THEN @ + 1 ELSE @]
    /\ UNCHANGED <<config, pdb_ids, output_files, failed_downloads, pc, in_retry,
                   retry_pdb_ids, pending, completed, processed, recorded,
                   failure_file, succeeded, last_outcome, pruned, rounds>>
    /\ UNCHANGED <<listing, dup_pool>>

\* _download_single_file returns: without a request when the file is
\* already there (sabdab), else with the outcome of the request.
TaskReturn(pdb_id, outcome) ==
    /\ future[pdb_id].state = "running"
    /\ LET skip == AlreadyDownloaded(pdb_id)
           ok == skip \/ Success(outcome)
       IN /\ skip => outcome = "ok"
          /\ future' = [future EXCEPT ![pdb_id] =
                [state |-> "finished",
                 success |-> ok,
                 msg |-> IF skip THEN "already" ELSE Message(outcome),
                 existed |-> pdb_id \in output_files,
                 requested |-> ~skip]]
          /\ output_files' = IF skip THEN output_files
                             ELSE FilesAfter(output_files, pdb_id, outcome)
          /\ succeeded' = IF ok THEN succeeded \cup {pdb_id} ELSE succeeded
    /\ UNCHANGED <<config, pdb_ids, failed_downloads, pc, in_retry, retry_pdb_ids,
                   pending, completed, processed, recorded, failure_file,
                   fetches, last_outcome, pruned, rounds, round_fetches>>
    /\ UNCHANGED <<listing, dup_pool>>

\* One iteration of the as_completed loop of _process_batch, dt seconds
\* after the previous one.
ProcessResult(pdb_id, dt) ==
    /\ pc = "process_batch"
    /\ pdb_id \in pending
    /\ future[pdb_id].state = "finished"
    /\ pending' = Yielded(pending, pdb_id)
    /\ completed' = completed + 1
    /\ processed' = [processed EXCEPT ![pdb_id] = @ + 1]
    /\ last_outcome' = [last_outcome EXCEPT ![pdb_id] =
                          IF future[pdb_id].success THEN "ok" ELSE "fail"]
    /\ failed_downloads' = Handled(Advance(failed_downloads, dt), pdb_id,
                                   future[pdb_id].success, future[pdb_id].msg)
    /\ recorded' = IF future[pdb_id].success THEN recorded
                   ELSE [recorded EXCEPT ![pdb_id] = @ + 1]
    /\ UNCHANGED <<config, pdb_ids, output_files, pc, in_retry, retry_pdb_ids,
                   future, failure_file, fetches, succeeded, pruned, rounds,
                   round_fetches>>
    /\ UNCHANGED <<listing, dup_pool>>

\* _process_batch returns to download_structures.
EndBatch ==
    /\ pc = "process_batch"
    /\ ~in_retry
    /\ pending = {}
    /\ dup_pending = {}
    /\ pc' = IF variant = "pdb" THEN "download_structures" ELSE "check_failed"
    /\ PoolClosed
    /\ UNCHANGED <<config, pdb_ids, output_files, failed_downloads, in_retry,
                   retry_pdb_ids, failure_file, history>>
    /\ UNCHANGED listing

\* download_structures: "if self.failed_downloads:".
CheckFailed ==
    /\ pc = "check_failed"
    /\ pc' = IF DOMAIN failed_downloads # {} THEN "retry" ELSE "summary"
    /\ UNCHANGED <<config, pdb_ids, output_files, failed_downloads, in_retry,
                   retry_pdb_ids, pool, failure_file, history>>
    /\ UNCHANGED <<listing, dup_pool>>

\* _retry_failed_downloads: the ledger is not empty and nothing is eligible:
\* "Waiting for retry cooldown...", time.sleep(60) begins.
RetryWait ==
    /\ pc = "retry"
    /\ DOMAIN failed_downloads # {}
    /\ Eligible(failed_downloads) = {}
    /\ pc' = "waiting"
    /\ UNCHANGED <<config, pdb_ids, output_files, failed_downloads, in_retry,
                   retry_pdb_ids, pool, failure_file, history>>
    /\ UNCHANGED <<listing, dup_pool>>

\* _retry_failed_downloads: time.sleep(60) returns, continue.
RetryWake ==
    /\ pc = "waiting"
    /\ failed_downloads' = Advance(failed_downloads, PollInterval)
    /\ pc' = "retry"
    /\ UNCHANGED <<config, pdb_ids, output_files, in_retry, retry_pdb_ids,
                   pool, failure_file, history>>
    /\ UNCHANGED <<listing, dup_pool>>

\* _retry_failed_downloads: _process_batch(retry_pdb_ids).
RetryRound ==
    /\ pc = "retry"
    /\ Eligible(failed_downloads) # {}
    /\ retry_pdb_ids' = Eligible(failed_downloads)
    /\ in_retry' = TRUE
    /\ rounds' = rounds + 1
    /\ Submit(Eligible(failed_downloads))
    /\ UNCHANGED <<config, pdb_ids, output_files, failed_downloads, failure_file,
                   fetches, succeeded, last_outcome, pruned, round_fetches>>
    /\ UNCHANGED listing

\* _retry_failed_downloads: the round is over, the cleanup loop runs.
RetryCleanup ==
    /\ pc = "process_batch"
    /\ in_retry
    /\ pending = {}
    /\ dup_pending = {}
    /\ failed_downloads' = Cleanup(failed_downloads, retry_pdb_ids, output_files)
    /\ pruned' = [x \in Ids |->
                    IF x \in Exhausted(failed_downloads, retry_pdb_ids)
                    THEN "exhausted"
                    ELSE IF x \in OnDisk(failed_downloads, retry_pdb_ids, output_files)
                    THEN "on_disk"
                    ELSE pruned[x]]
    /\ pc' = "retry"
    /\ in_retry' = FALSE
    /\ retry_pdb_ids' = {}
    /\ PoolClosed
    /\ UNCHANGED <<config, pdb_ids, output_files, failure_file, fetches,
                   succeeded, last_outcome, rounds, round_fetches>>
    /\ UNCHANGED listing

\* _retry_failed_downloads: "while self.failed_downloads" ends.
RetryReturn ==
    /\ pc = "retry"
    /\ DOMAIN failed_downloads = {}
    /\ pc' = "summary"
    /\ UNCHANGED <<config, pdb_ids, output_files, failed_downloads, in_retry,
                   retry_pdb_ids, pool, failure_file, history>>
    /\ UNCHANGED <<listing, dup_pool>>

\* The rows _save_failure_summary writes for a ledger.
Rows(led) == {<<x, led[x].attempt, led[x].error_msg>> : x \in DOMAIN led}

\* _save_failure_summary.
SaveFailureSummary ==
    /\ pc = "summary"
    /\ failure_file' = IF DOMAIN failed_downloads = {}
                       THEN failure_file
                       ELSE [written |-> TRUE, rows |-> Rows(failed_downloads)]
    /\ pc' = "done"
    /\ UNCHANGED <<config, pdb_ids, output_files, failed_downloads, in_retry,
                   retry_pdb_ids, pool, history>>
    /\ UNCHANGED <<listing, dup_pool>>

Next ==
    \/ \E batch \in SUBSET Ids : StartBatch(batch)
    \/ BatchesDone
    \/ \E pdb_id \in Ids : TaskStart(pdb_id)
    \/ \E pdb_id \in Ids, outcome \in NetworkOutcomes : TaskReturn(pdb_id, outcome)
    \/ \E pdb_id \in Ids, dt \in WaitDurations : ProcessResult(pdb_id, dt)
    \/ EndBatch
    \/ CheckFailed
    \/ RetryWait
    \/ RetryWake
    \/ RetryRound
    \/ RetryCleanup
    \/ RetryReturn
    \/ SaveFailureSummary

Spec == Init /\ [][Next]_vars

TunableSpec == TunableInit /\ [][Next]_vars

\* Worker threads run, requests.get returns (timeout = 30), sleep returns:
\* the program takes a step whenever it can.
FairSpec == Spec /\ WF_vars(Next)

TunableFairSpec == TunableSpec /\ WF_vars(Next)

\* ------------------------------------------ the whole program: main()

\* main() before "Step 1".
MainInit ==
    /\ MAX_RETRY_ATTEMPTS = DefaultMaxRetryAttempts
    /\ RETRY_WAIT_TIME = DefaultRetryWaitTime
    /\ Constructed
    /\ pdb_ids = {}
    /\ pc = "main"

\* main(), "Step 1": fetch_pdb_ids.
\*   sabdab  the summary file is missing: FileNotFoundError leaves main();
\*           else its first column is read and list(set(...)) drops repeats.
\*   pdb     the pages of the search are appended to all_pdb_ids until an
\*           empty page or a RequestException ends the loop; either way the
\*           identifiers listed so far are saved to batch files, as they
\*           came, and main() goes on to download_structures.
FetchPdbIds(listed, twice, error) ==
    /\ pc = "main"
    /\ twice \subseteq listed
    /\ input_error' = error
    /\ IF variant = "sabdab"
       THEN /\ twice = {}
            /\ error => listed = {}
            /\ pdb_ids' = listed
            /\ dup_ids' = {}
            /\ pc' = IF error THEN "failed" ELSE "download_structures"
       ELSE /\ pdb_ids' = listed
            /\ dup_ids' = twice
            /\ pc' = "download_structures"
    /\ UNCHANGED <<config, output_files, failed_downloads, in_retry,
                   retry_pdb_ids, pool, failure_file, history, dup_pool>>

\* A worker thread takes the work item of a second line.
DupTaskStart(pdb_id) ==
    /\ dup_future[pdb_id].state = "queued"
    /\ WorkerFree
    /\ dup_future' = [dup_future EXCEPT ![pdb_id].state = "running"]
    /\ fetches' = [fetches EXCEPT ![pdb_id] = @ + 1]
    /\ round_fetches' = [round_fetches EXCEPT ![pdb_id] =
                            IF in_retry THEN @ + 1 ELSE @]
    /\ UNCHANGED <<config, pdb_ids, output_files, failed_downloads, pc, in_retry,
                   retry_pdb_ids, pool, failure_file, succeeded, last_outcome,
                   pruned, rounds, listing, dup_pending>>

\* _download_single_file returns in the task of a second line.
DupTaskReturn(pdb_id, outcome) ==
    /\ dup_future[pdb_id].state = "running"
    /\ LET skip == AlreadyDownloaded(pdb_id)
           ok == skip \/ Success(outcome)
       IN /\ skip => outcome = "ok"
          /\ dup_future' = [dup_future EXCEPT ![pdb_id] =
                [state |-> "finished",
                 success |-> ok,
                 msg |-> IF skip THEN "already" ELSE Message(outcome),
                 existed |-> pdb_id \in output_files,
                 requested |-> ~skip]]
          /\ output_files' = IF skip THEN output_files
                             ELSE FilesAfter(output_files, pdb_id, outcome)
          /\ succeeded' = IF ok THEN succeeded \cup {pdb_id} ELSE succeeded
    /\ UNCHANGED <<config, pdb_ids, failed_downloads, pc, in_retry, retry_pdb_ids,
                   pool, failure_file, fetches, last_outcome, pruned, rounds,
                   round_fetches, listing, dup_pending>>

\* The as_completed loop handles the future of a second line.
DupProcessResult(pdb_id, dt) ==
    /\ pc = "process_batch"
    /\ pdb_id \in dup_pending
    /\ dup_future[pdb_id].state = "finished"
    /\ dup_pending' = Yielded(dup_pending, pdb_id)
    /\ completed' = completed + 1
    /\ processed' = [processed EXCEPT ![pdb_id] = @ + 1]
    /\ last_outcome' = [last_outcome EXCEPT ![pdb_id] =
                          IF dup_future[pdb_id].success THEN "ok" ELSE "fail"]
    /\ failed_downloads' = Handled(Advance(failed_downloads, dt), pdb_id,
                                   dup_future[pdb_id].success,
                                   dup_future[pdb_id].msg)
    /\ recorded' = IF dup_future[pdb_id].success THEN recorded
                   ELSE [recorded EXCEPT ![pdb_id] = @ + 1]
    /\ UNCHANGED <<config, pdb_ids, output_files, pc, in_retry, retry_pdb_ids,
                   future, pending, failure_file, fetches, succeeded, pruned,
                   rounds, round_fetches, listing, dup_future>>

MainNext ==
    \/ \E listed \in SUBSET Ids, twice \in SUBSET Ids, error \in BOOLEAN :
            FetchPdbIds(listed, twice, error)
    \/ \E pdb_id \in Ids : DupTaskStart(pdb_id)
    \/ \E pdb_id \in Ids, outcome \in NetworkOutcomes :
            DupTaskReturn(pdb_id, outcome)
    \/ \E pdb_id \in Ids, dt \in WaitDurations : DupProcessResult(pdb_id, dt)
    \/ Next

MainSpec == MainInit /\ [][MainNext]_vars

\* =========================================================== properties

\* The identifiers whose every call of _download_single_file failed, all
\* MAX_RETRY_ATTEMPTS of them.
AlwaysFailedToCap ==
    {x \in Ids : fetches[x] = MAX_RETRY_ATTEMPTS /\ x \notin succeeded}

ReportRows(x) == {r \in failure_file.rows : r[1] = x}

\* C1: when the run has ended, every identifier whose fetch failed on every
\* attempt up to the cap has exactly one row in the failure report, and that
\* row carries attempt = cap.
C1_ExhaustedAreReported ==
    pc = "done" =>
        \A x \in AlwaysFailedToCap :
            /\ failure_file.written
            /\ ReportRows(x) # {}
            /\ \A r \in ReportRows(x) : r[2] = MAX_RETRY_ATTEMPTS
            /\ Cardinality(ReportRows(x)) = 1

\* C2: when the run has ended, every identifier for which some fetch call
\* returned success has its output file on disk and is neither in the ledger
\* handed to _save_failure_summary nor in the report it wrote.
C2_SucceededHaveFileAndNoReport ==
    /\ \A x \in succeeded : x \in output_files
    /\ pc \in {"summary", "done"} =>
          \A x \in succeeded : /\ x \notin DOMAIN failed_downloads
                               /\ ReportRows(x) = {}

\* C2 witness: a finished run in which an identifier failed first and
\* succeeded in a retry round.
C2_Witness ==
    /\ pc = "done"
    /\ \E x \in succeeded : fetches[x] >= 2 /\ round_fetches[x] >= 1

\* C3: the retry drain terminates (the run reaches its end) for every
\* MAX_RETRY_ATTEMPTS >= 1 and every RETRY_WAIT_TIME >= 0, whatever the
\* fetches return.
C3_DrainTerminates == <>(pc = "done")

\* The drain does terminate for every cap of at least 2.
DrainTerminatesAboveOne == (MAX_RETRY_ATTEMPTS >= 2) => <>(pc = "done")

\* The identifiers handed to _download_single_file so far.
Dispatched == {x \in Ids : fetches[x] > 0}

\* C4 as claimed: when every fetch fails, the drain is over after at most
\* MAX_RETRY_ATTEMPTS rounds of _process_batch, counted over the whole drain.
C4_AtMostCapRoundsInTotal ==
    (pc = "done" /\ succeeded = {}) => rounds <= MAX_RETRY_ATTEMPTS

\* C4 as amended: every identifier is part of at most MAX_RETRY_ATTEMPTS - 1
\* retry rounds, so the drain runs at most N * (MAX_RETRY_ATTEMPTS - 1) retry
\* rounds for the N identifiers dispatched, not MAX_RETRY_ATTEMPTS in total.
C4_RoundsBoundedPerIdentifier ==
    /\ \A x \in Ids : round_fetches[x] <= MAX_RETRY_ATTEMPTS - 1
    /\ rounds <= Cardinality(Dispatched) * (MAX_RETRY_ATTEMPTS - 1)

\* C4 witness: a finished run in which every fetch failed and the drain ran
\* more rounds than the cap, each identifier retried in its own rounds.
C4_Witness ==
    /\ pc = "done"
    /\ succeeded = {}
    /\ rounds > MAX_RETRY_ATTEMPTS
    /\ \A x \in Dispatched : round_fetches[x] = MAX_RETRY_ATTEMPTS - 1

\* C5: over the whole run every identifier is fetched at most
\* MAX_RETRY_ATTEMPTS times, and an identifier the cleanup has removed from
\* the ledger (exhausted, or resolved on disk) has no task in any later round.
C5_FetchedAtMostCapTimes ==
    \A x \in Ids :
        /\ fetches[x] <= MAX_RETRY_ATTEMPTS
        /\ pruned[x] # "no" => future[x].state = "none"

\* C5 witness: a retry round is running for one identifier after another one
\* was fetched MAX_RETRY_ATTEMPTS times and removed as exhausted.
C5_Witness ==
    /\ pc = "process_batch"
    /\ in_retry
    /\ \E x, y \in Ids :
          /\ pruned[x] = "exhausted"
          /\ fetches[x] = MAX_RETRY_ATTEMPTS
          /\ future[y].state = "running"

\* C6: at no point of a round are more than max_workers fetches in flight.
C6_InFlightAtMostMaxWorkers == Cardinality(Running) <= max_workers

\* C6 witness: the pool is full and a submitted identifier still waits.
C6_Witness ==
    /\ Cardinality(Running) = max_workers
    /\ \E x \in Ids : future[x].state = "queued"

\* The identifiers whose fetch of this round began with the output file on
\* disk and has returned.
FetchedWithFile ==
    {x \in Ids : future[x].state = "finished" /\ future[x].existed}

ShortCircuited(x) ==
    /\ future[x].success
    /\ ~future[x].requested
    /\ recorded[x] = 0

\* C7 as claimed: a fetch of an identifier whose output file exists returns
\* success without a network request, and no failure is recorded for it.
C7_ExistingFileShortCircuits == \A x \in FetchedWithFile : ShortCircuited(x)

\* C7 as amended: that holds of SabdabDownloader; PDBDownloader requests
\* the file again whether or not it is on disk.
C7_SabdabExistingFileShortCircuits ==
    variant = "sabdab" => \A x \in FetchedWithFile : ShortCircuited(x)

\* C7 witness: a SabdabDownloader round over several identifiers, all with
\* their files on disk, has handled every outcome.
C7_Witness ==
    /\ variant = "sabdab"
    /\ pc = "process_batch"
    /\ pending = {}
    /\ completed >= 2
    /\ \A x \in Ids : future[x].state # "none" => x \in FetchedWithFile

\* An identifier has reached the attempt cap: its record counts
\* MAX_RETRY_ATTEMPTS failures, or the cleanup deleted it for that.
ReachedCap(x) ==
    IF x \in DOMAIN failed_downloads
    THEN failed_downloads[x].attempt >= MAX_RETRY_ATTEMPTS
    ELSE pruned[x] = "exhausted"

\* C8 as claimed: in every state, an identifier is in the ledger iff its
\* most recent fetch outcome was a failure and it has neither reached the
\* cap nor been found on disk by the cleanup.
C8_LedgerIffFailedInEveryState ==
    \A x \in Ids :
        x \in DOMAIN failed_downloads
        <=> /\ last_outcome[x] = "fail"
            /\ ~ReachedCap(x)
            /\ pruned[x] # "on_disk"

\* C8 as amended: in every state in which no round of _process_batch is in
\* progress, an identifier is in the ledger iff its most recent fetch outcome
\* was a failure and the post-round cleanup has not removed it (as exhausted
\* at the cap, or as present on disk).
C8_LedgerIffFailedBetweenRounds ==
    pc # "process_batch" =>
        \A x \in Ids :
            x \in DOMAIN failed_downloads
            <=> /\ last_outcome[x] = "fail"
                /\ pruned[x] = "no"

\* C8 witness: between two rounds, one identifier is still in the ledger
\* after a failed retry and another was removed because its file is on disk.
C8_Witness ==
    /\ pc = "retry"
    /\ \E x, y \in Ids :
          /\ x \in DOMAIN failed_downloads
          /\ failed_downloads[x].attempt >= 2
          /\ pruned[y] = "on_disk"
          /\ last_outcome[y] = "ok"

\* C9: in a round every submitted identifier has its outcome handled exactly
\* once, whatever the order of completion, and _record_failure is called
\* exactly once for each failed outcome and never for a successful one.
C9_EachOutcomeHandledOnce ==
    /\ completed = Cardinality({x \in Ids : processed[x] >= 1})
    /\ \A x \in Ids :
          /\ processed[x] <= 1
          /\ processed[x] = 1 <=> (future[x].state = "finished" /\ x \notin pending)
          /\ recorded[x] = IF processed[x] = 1 /\ ~future[x].success THEN 1 ELSE 0
          /\ (pc = "process_batch" /\ pending = {} /\ future[x].state # "none")
                => processed[x] = 1

\* C9 witness: a round of two identifiers is over, the one that finished
\* first failed and the other succeeded.
C9_Witness ==
    /\ pc = "process_batch"
    /\ pending = {}
    /\ \E x, y \in Ids :
          /\ recorded[x] = 1
          /\ processed[y] = 1
          /\ future[y].success
          /\ x \in DOMAIN failed_downloads
          /\ failed_downloads[x].elapsed > 0

\* The identifiers submitted in the round in progress.
Submitted == {x \in Ids : future[x].state # "none"}

\* C10: a failed fetch aborts neither the batch nor the run: _process_batch
\* is left only after every identifier submitted in the round was fetched and
\* had its outcome handled, a ledger that is not empty after the first
\* batches leads into the retry loop, and the run reaches its end, the final
\* report included, whatever the fetches return.
C10_FailureAbortsNothing ==
    /\ [][(pc = "process_batch" /\ pc' # "process_batch")
            => \A x \in Submitted : future[x].state = "finished" /\ processed[x] = 1]_vars
    /\ [][(pc = "check_failed" /\ DOMAIN failed_downloads # {})
            => pc' = "retry"]_vars
    /\ <>(pc = "done")

\* C10 witness: a failure has been recorded while another identifier of the
\* same round has not even started.
C10_Witness ==
    /\ pc = "process_batch"
    /\ \E x, y \in Ids :
          /\ recorded[y] = 1
          /\ x \in pending
          /\ future[x].state = "queued"

\* No part of the download has happened: no task submitted or run, no
\* outcome handled, no success, no ledger entry, no report.
NothingProcessed ==
    /\ \A x \in Ids : /\ fetches[x] = 0
                      /\ future[x].state = "none"
                      /\ dup_future[x].state = "none"
                      /\ last_outcome[x] = "none"
    /\ succeeded = {}
    /\ DOMAIN failed_downloads = {}
    /\ ~failure_file.written

\* C11: when the list of identifiers cannot be obtained, the run fails at
\* once and processes nothing: in every state after a failed listing no
\* fetch has been dispatched, no output file written and no ledger entry
\* created, and the run has not gone on to its normal end.
C11_InputErrorProcessesNothing ==
    input_error => (NothingProcessed /\ pc # "done")

\* Identifiers whose task of the current round is submitted and whose
\* outcome the loop has not handled yet.
Outstanding == pending \cup dup_pending

\* C12: a retry round is handed exactly the ledger identifiers with
\* attempt < MAX_RETRY_ATTEMPTS whose last failure is at least
\* RETRY_WAIT_TIME old at the scan; hence an identifier being fetched in a
\* retry round has a record that old, and no identifier being fetched has a
\* record whose attempt has reached the cap.
C12_RetrySubsetIsTheEligibleSet ==
    /\ [][(pc = "retry" /\ pc' = "process_batch") =>
            /\ retry_pdb_ids' =
                  {x \in DOMAIN failed_downloads :
                      /\ failed_downloads[x].attempt < MAX_RETRY_ATTEMPTS
                      /\ failed_downloads[x].elapsed >= RETRY_WAIT_TIME}
            /\ {x \in Ids : future'[x].state # "none"} = retry_pdb_ids'
            /\ failed_downloads' = failed_downloads]_vars
    /\ [](\A x \in Outstanding :
            /\ x \in DOMAIN failed_downloads =>
                  failed_downloads[x].attempt < MAX_RETRY_ATTEMPTS
            /\ in_retry =>
                  /\ x \in DOMAIN failed_downloads
                  /\ failed_downloads[x].elapsed >= RETRY_WAIT_TIME)

\* A retry round is running for one identifier while another, which has
\* attempts left, was left out because its failure is too recent.
C12_Witness ==
    /\ pc = "process_batch" /\ in_retry
    /\ pending = retry_pdb_ids
    /\ \E x \in retry_pdb_ids : future[x].state = "running"
    /\ \E y \in DOMAIN failed_downloads \ retry_pdb_ids :
          /\ failed_downloads[y].attempt < MAX_RETRY_ATTEMPTS
          /\ failed_downloads[y].elapsed < RETRY_WAIT_TIME

\* The step that ends a retry round: _process_batch has returned and the
\* cleanup loop runs.
CleanupStep == pc = "process_batch" /\ in_retry /\ pc' = "retry"

\* C13: the cleanup after a retry round removes an identifier of the round
\* when its attempt has reached the cap, else when its output file is on
\* disk, and keeps it otherwise; an entry whose identifier was not in the
\* round stays; no entry that stays is altered and none is added.
C13_CleanupPrunesOnlyTheRound ==
    [][CleanupStep =>
        /\ DOMAIN failed_downloads' \subseteq DOMAIN failed_downloads
        /\ \A x \in DOMAIN failed_downloads :
              /\ x \in retry_pdb_ids =>
                    (x \in DOMAIN failed_downloads' <=>
                        /\ failed_downloads[x].attempt < MAX_RETRY_ATTEMPTS
                        /\ x \notin output_files)
              /\ x \notin retry_pdb_ids => x \in DOMAIN failed_downloads'
              /\ x \in DOMAIN failed_downloads' =>
                    failed_downloads'[x] = failed_downloads[x]]_vars

\* The cleanup is about to run on a ledger with an entry of the round whose
\* file is on disk and an entry outside the round whose file is on disk too.
C13_Witness ==
    /\ pc = "process_batch" /\ in_retry /\ Outstanding = {}
    /\ \E x \in retry_pdb_ids \cap DOMAIN failed_downloads :
          /\ failed_downloads[x].attempt < MAX_RETRY_ATTEMPTS
          /\ x \in output_files
    /\ \E y \in DOMAIN failed_downloads \ retry_pdb_ids : y \in output_files

\* The as_completed loop handles a successful outcome of x in this step.
SuccessHandled(x) ==
    /\ pc = "process_batch"
    /\ processed'[x] = processed[x] + 1
    /\ (x \in pending /\ x \notin pending') => future[x].success
    /\ (x \in dup_pending /\ x \notin dup_pending') => dup_future[x].success

\* The ledger led2 holds the records of led, each with the attempt, the
\* message and the timestamp it had: the same identifiers, attempts and
\* messages, and every record older by the same dt.
SameRecords(led, led2) ==
    /\ DOMAIN led2 = DOMAIN led
    /\ \E dt \in WaitDurations : \A y \in DOMAIN led :
          led2[y] = [led[y] EXCEPT !.elapsed = Min(@ + dt, RETRY_WAIT_TIME)]

\* C14: handling a successful outcome in _process_batch leaves the ledger as
\* it is: an earlier failure record of that identifier stays with its
\* attempt, message and timestamp; and no step of _process_batch, whatever
\* the outcome, removes a ledger entry: only the cleanup after a retry
\* round does.
C14_SuccessLeavesLedger ==
    /\ [][(\E x \in Ids : SuccessHandled(x)) =>
            SameRecords(failed_downloads, failed_downloads')]_vars
    /\ [][(pc = "process_batch" /\ ~CleanupStep) =>
            DOMAIN failed_downloads \subseteq DOMAIN failed_downloads']_vars

\* In a retry round the success of an identifier has been handled and its
\* failure record is still in the ledger.
C14_Witness ==
    /\ pc = "process_batch" /\ in_retry
    /\ \E x \in retry_pdb_ids :
          /\ processed[x] = 1
          /\ future[x].success
          /\ x \in DOMAIN failed_downloads

\* The as_completed loop calls _record_failure for x in this step.
FailureRecorded(x) == pc = "process_batch" /\ recorded'[x] = recorded[x] + 1

\* The message of the outcome of x the loop handles in this step.
HandledMessage(x) ==
    IF x \in pending /\ x \notin pending' THEN future[x].msg
                                          ELSE dup_future[x].msg

Without(led, x) == [y \in DOMAIN led \ {x} |-> led[y]]

\* C15: _record_failure(pdb_id, message) adds exactly 1 to the attempt of a
\* record that is in the ledger and overwrites its message and timestamp,
\* inserts a record with attempt = 1 otherwise, and leaves the record of
\* every other identifier as it was; the ledger stays a map with one record
\* per identifier.
C15_RecordFailureCountsOne ==
    [][\A x \in Ids : FailureRecorded(x) =>
        /\ DOMAIN failed_downloads' = DOMAIN failed_downloads \cup {x}
        /\ failed_downloads'[x].attempt =
              IF x \in DOMAIN failed_downloads
              THEN failed_downloads[x].attempt + 1 ELSE 1
        /\ failed_downloads'[x].error_msg = HandledMessage(x)
        /\ failed_downloads'[x].elapsed = 0
        /\ SameRecords(Without(failed_downloads, x),
                       Without(failed_downloads', x))]_vars

\* A retry of x has failed again with an exception and been recorded:
\* attempt 2 and a fresh timestamp, next to the record of another identifier.
C15_Witness ==
    /\ pc = "process_batch" /\ in_retry
    /\ \E x \in retry_pdb_ids, y \in DOMAIN failed_downloads :
          /\ y # x
          /\ recorded[x] = 1
          /\ x \in DOMAIN failed_downloads
          /\ failed_downloads[x].attempt = 2
          /\ failed_downloads[x].elapsed = 0
          /\ failed_downloads[x].error_msg = "exception"
          /\ failed_downloads[y].error_msg = "status"

\* What the scan at the top of the retry loop finds eligible.
ScanFinds ==
    {x \in DOMAIN failed_downloads :
        /\ failed_downloads[x].attempt < MAX_RETRY_ATTEMPTS
        /\ failed_downloads[x].elapsed >= RETRY_WAIT_TIME}

NoTask == \A x \in Ids : future[x].state = "none" /\ dup_future[x].state = "none"

\* C16: the retry loop scans and waits: a scan that finds the ledger
\* non-empty but nothing eligible goes to the wait; the wait submits no
\* fetch, leaves every record as it is and goes back to the scan; the loop
\* returns only from a scan that finds the ledger empty, and such a scan
\* returns at once.
C16_ScanWaitReturn ==
    /\ [][(pc = "retry" /\ DOMAIN failed_downloads # {} /\ ScanFinds = {}) =>
            /\ pc' = "waiting"
            /\ UNCHANGED <<failed_downloads, future, dup_future, fetches>>]_vars
    /\ [][pc = "waiting" =>
            /\ pc' = "retry"
            /\ SameRecords(failed_downloads, failed_downloads')
            /\ UNCHANGED <<future, dup_future, fetches, output_files>>]_vars
    /\ [](pc = "waiting" => (NoTask /\ DOMAIN failed_downloads # {}))
    /\ [][(pc = "retry" /\ pc' \notin {"retry", "waiting", "process_batch"}) =>
            (pc' = "summary" /\ DOMAIN failed_downloads = {})]_vars
    /\ [][(pc = "retry" /\ DOMAIN failed_downloads = {}) =>
            (pc' = "summary" /\ failed_downloads' = failed_downloads /\ NoTask')]_vars

\* The loop waits on a record that has attempts left and whose failure is
\* one PollInterval old.
C16_Witness ==
    /\ pc = "waiting"
    /\ \E x \in DOMAIN failed_downloads :
          /\ failed_downloads[x].attempt < MAX_RETRY_ATTEMPTS
          /\ failed_downloads[x].elapsed = PollInterval
    /\ \A x \in DOMAIN failed_downloads :
          failed_downloads[x].elapsed \in {PollInterval, RETRY_WAIT_TIME}

\* A step of a worker thread: a task starts or returns.
WorkerStep ==
    \E x \in Ids :
        \/ future[x].state \in {"queued", "running"} /\ future'[x] # future[x]
        \/ dup_future[x].state \in {"queued", "running"}
              /\ dup_future'[x] # dup_future[x]

\* Tasks of the round that a worker thread has still to start or finish.
Unfinished ==
    {x \in Ids : \/ future[x].state \in {"queued", "running"}
                  \/ dup_future[x].state \in {"queued", "running"}}

\* Identifiers whose record this step inserts or counts up.
Counted ==
    (DOMAIN failed_downloads' \ DOMAIN failed_downloads) \cup
    {x \in DOMAIN failed_downloads \cap DOMAIN failed_downloads' :
        failed_downloads'[x].attempt # failed_downloads[x].attempt}

\* C17: the ledger is only ever touched by one thread at a time: no step of
\* a worker thread reads or writes it, so the _record_failure calls, the
\* scan and the cleanup all run one after the other in the main thread;
\* and when the main thread leaves _process_batch, for the cleanup, the next
\* scan or the final report, every task of the round has returned and had
\* its outcome handled, so no completion arrives later.
C17_LedgerTouchedByMainThreadOnly ==
    /\ [][WorkerStep =>
            /\ failed_downloads' = failed_downloads
            /\ UNCHANGED <<pc, recorded, processed, completed>>]_vars
    /\ [][failed_downloads' # failed_downloads =>
            /\ ~WorkerStep
            /\ Cardinality(Counted) <= 1
            /\ Unfinished' = Unfinished]_vars
    /\ [](pc # "process_batch" => (NoTask /\ Outstanding = {}))
    /\ []((pc = "process_batch" /\ Outstanding = {}) => Unfinished = {})
    /\ [][(pc = "process_batch" /\ pc' # "process_batch") =>
            (Outstanding = {} /\ Unfinished = {})]_vars

\* The main thread has recorded a failure while a worker thread is still
\* running the fetch of another identifier of the round.
C17_Witness ==
    /\ pc = "process_batch"
    /\ \E x, y \in Ids :
          /\ x # y
          /\ recorded[y] = 1
          /\ y \in DOMAIN failed_downloads
          /\ failed_downloads[y].elapsed = 0
          /\ future[x].state = "running"

\* The number of tasks of the round in progress submitted for x.
TasksOf(x) ==
    (IF future[x].state # "none" THEN 1 ELSE 0)
    + (IF dup_future[x].state # "none" THEN 1 ELSE 0)

\* C18: in every round, the first batches and the retry rounds alike, at
\* most one task is submitted per identifier, so at most one outcome per
\* identifier is handled and at most one failure recorded for it in a round.
C18_OneTaskPerIdentifier ==
    \A x \in Ids : /\ TasksOf(x) <= 1
                    /\ processed[x] <= 1
                    /\ recorded[x] <= 1

\* C19: for a list of distinct identifiers and a cap of at least 1, every
\* record of the ledger has 1 <= attempt <= MAX_RETRY_ATTEMPTS in every
\* state, and the attempt of an identifier never goes down while its record
\* stays in the ledger.
C19_AttemptWithinCap ==
    /\ [](\A x \in DOMAIN failed_downloads :
            /\ 1 <= failed_downloads[x].attempt
            /\ failed_downloads[x].attempt <= MAX_RETRY_ATTEMPTS)
    /\ [][\A x \in DOMAIN failed_downloads \cap DOMAIN failed_downloads' :
            failed_downloads'[x].attempt >= failed_downloads[x].attempt]_vars

\* A record has been counted up to a cap of 3 in the second retry round and
\* is still in the ledger, next to a record at attempt 2.
C19_Witness ==
    /\ MAX_RETRY_ATTEMPTS = DefaultMaxRetryAttempts
    /\ pc = "process_batch" /\ in_retry
    /\ \E x, y \in DOMAIN failed_downloads :
          /\ failed_downloads[x].attempt = MAX_RETRY_ATTEMPTS
          /\ recorded[x] = 1
          /\ failed_downloads[y].attempt = 2

====
